---------------------------- MODULE Spec2Model ----------------------------
(***************************************************************************)
(* SubDomainFinder: the certificate-log subdomain finder (subfinder.js,    *)
(* kept as src/unnamed/part_000) and its interactive variant               *)
(* (src/subdomain.js).                                                     *)
(*                                                                         *)
(* Strings are sequences of one-character strings, so that trim,           *)
(* toLowerCase, replace, endsWith, split and sort are computed character   *)
(* by character the way the JavaScript runtime computes them.              *)
(***************************************************************************)
EXTENDS Integers, Sequences, FiniteSets, TLC

(***************************************************************************)
(* Bounds of the model.                                                    *)
(***************************************************************************)
\* longest name_value string enumerated for the normalizer
MaxLen == 5
\* most items handed to concurrencyMap when it is driven on its own
MaxN == 4
\* largest concurrency limit tried when concurrencyMap is driven on its own
MaxK == 3
\* most entries in a certificate-log response of the whole program
MaxEntries == 2
\* most items when concurrencyMap is driven on its own with resolveHost
MaxResolve == 2
\* most lookup calls the resolver leaves unanswered in one run
MaxLost == 1
\* most entries in a response where termination is checked
MaxFairEntries == 1

(***************************************************************************)
(* Characters and JavaScript string primitives.                            *)
(*                                                                         *)
(* Where a loop is unrolled as a recursive operator, the value of one      *)
(* iteration is bound (x \in {e}) before the next iteration uses it, so    *)
(* that it is computed once.                                               *)
(***************************************************************************)
NL == "\n"

\* the characters the enumerated name_value strings are built from
Alphabet == {"a", "A", ".", "*", " ", NL}

\* UTF-16 code units: the order Array.prototype.sort() compares strings by
CodeUnit(c) ==
    CASE c = NL  -> 10
      [] c = " " -> 32
      [] c = "*" -> 42
      [] c = "." -> 46
      [] c = "A" -> 65
      [] c = "W" -> 87
      [] c = "a" -> 97
      [] c = "c" -> 99
      [] c = "e" -> 101
      [] c = "i" -> 105
      [] c = "l" -> 108
      [] c = "m" -> 109
      [] c = "o" -> 111
      [] c = "p" -> 112
      [] c = "v" -> 118
      [] c = "w" -> 119
      [] c = "x" -> 120

Range(s) == {s[i] : i \in 1..Len(s)}

IsWhiteSpace(c) == c \in {" ", NL}

LowerChar(c) == IF c = "A" THEN "a" ELSE IF c = "W" THEN "w" ELSE c

\* String.prototype.toLowerCase
toLowerCase(s) == [i \in 1..Len(s) |-> LowerChar(s[i])]

RECURSIVE trimStart(_)
trimStart(s) ==
    IF Len(s) > 0 /\ IsWhiteSpace(s[1]) THEN trimStart(Tail(s)) ELSE s

RECURSIVE trimEnd(_)
trimEnd(s) ==
    IF Len(s) > 0 /\ IsWhiteSpace(s[Len(s)])
    THEN trimEnd(SubSeq(s, 1, Len(s) - 1))
    ELSE s

\* String.prototype.trim
trim(s) == trimEnd(trimStart(s))

\* String.prototype.startsWith / endsWith
startsWith(s, p) == Len(p) <= Len(s) /\ SubSeq(s, 1, Len(p)) = p

endsWith(s, suffix) ==
    /\ Len(suffix) <= Len(s)
    /\ SubSeq(s, Len(s) - Len(suffix) + 1, Len(s)) = suffix

\* n.replace(/^\*\./, ""): one leading "*." is removed
replaceWildcard(s) ==
    IF startsWith(s, <<"*", ".">>) THEN SubSeq(s, 3, Len(s)) ELSE s

\* String.prototype.split("\n"): the pieces between newlines, "" gives [""]
RECURSIVE splitFrom(_, _, _)
splitFrom(s, i, piece) ==
    IF i > Len(s) THEN <<piece>>
    ELSE IF s[i] = NL THEN <<piece>> \o splitFrom(s, i + 1, <<>>)
    ELSE splitFrom(s, i + 1, Append(piece, s[i]))

split(s) == splitFrom(s, 1, <<>>)

\* Set.prototype.add on an insertion-ordered Set
SetAdd(set, x) == IF x \in Range(set) THEN set ELSE Append(set, x)

\* s < t by code units, the default comparison of Array.prototype.sort
RECURSIVE StrLess(_, _)
StrLess(s, t) ==
    IF Len(t) = 0 THEN FALSE
    ELSE IF Len(s) = 0 THEN TRUE
    ELSE IF s[1] = t[1] THEN StrLess(Tail(s), Tail(t))
    ELSE CodeUnit(s[1]) < CodeUnit(t[1])

\* x put into a list sorted by code units, after the elements equal to it
RECURSIVE InsertSorted(_, _)
InsertSorted(x, sorted) ==
    IF Len(sorted) = 0 THEN <<x>>
    ELSE IF StrLess(x, Head(sorted)) THEN <<x>> \o sorted
    ELSE <<Head(sorted)>> \o InsertSorted(x, Tail(sorted))

\* Array.prototype.sort() with the default comparison
RECURSIVE sort(_)
sort(list) ==
    IF Len(list) = 0 THEN <<>>
    ELSE CHOOSE sorted \in {InsertSorted(list[Len(list)], front) :
                              front \in {sort(SubSeq(list, 1, Len(list) - 1))}} : TRUE

(***************************************************************************)
(* The response of the certificate-log query: res.data is an array of      *)
(* entries (each modelled by its name_value string), or is no array, or    *)
(* the request fails (network error, error status, malformed body).        *)
(***************************************************************************)
OkResponse(data) == [kind |-> "ok", data |-> data]
NotArrayResponse == [kind |-> "notArray", data |-> <<>>]
FailedResponse   == [kind |-> "error", data |-> <<>>]

(***************************************************************************)
(* fetchSubdomains of subfinder.js (src/unnamed/part_000).                 *)
(***************************************************************************)
\* the value tested by `if (n.endsWith(domain))`: trimmed, wildcard removed
trimmedName(n) == replaceWildcard(trim(n))

\* addName with subs kept as an array: push instead of Set.add
addName_push(subs, n, domain) ==
    IF endsWith(trimmedName(n), domain)
    THEN Append(subs, toLowerCase(trimmedName(n)))
    ELSE subs

\* the body of `for (let n of names)`
addName(subs, n, domain) ==
    IF endsWith(trimmedName(n), domain)
    THEN SetAdd(subs, toLowerCase(trimmedName(n)))
    ELSE subs

RECURSIVE addNames(_, _, _)
addNames(subs, names, domain) ==
    IF Len(names) = 0 THEN subs
    ELSE CHOOSE all \in {addNames(added, Tail(names), domain) :
                           added \in {addName(subs, Head(names), domain)}} : TRUE

\* `for (const entry of res.data)`
RECURSIVE addEntries(_, _, _)
addEntries(subs, data, domain) ==
    IF Len(data) = 0 THEN subs
    ELSE CHOOSE all \in {addEntries(added, Tail(data), domain) :
                           added \in {addNames(subs, split(Head(data)), domain)}} : TRUE

\* fetchSubdomains that answers a failed query with the bare domain
fetchSubdomains_fallback(d, res) ==
    IF res.kind # "ok" THEN <<d>> ELSE sort(addEntries(<<>>, res.data, d))

fetchSubdomains(d, res) ==
    IF res.kind = "error" THEN <<>>
    ELSE IF res.kind = "notArray" THEN sort(<<>>)
    ELSE sort(addEntries(<<>>, res.data, d))

(***************************************************************************)
(* fetchSubdomains of src/subdomain.js (named after that file here).       *)
(***************************************************************************)
\* the body of `for (let sub of parts)`
addSub(subs, sub, domain) ==
    IF Len(toLowerCase(trim(sub))) > 0 /\ endsWith(toLowerCase(trim(sub)), domain)
    THEN SetAdd(subs, toLowerCase(trim(sub)))
    ELSE subs

RECURSIVE addParts(_, _, _)
addParts(subs, parts, domain) ==
    IF Len(parts) = 0 THEN subs
    ELSE CHOOSE all \in {addParts(added, Tail(parts), domain) :
                           added \in {addSub(subs, Head(parts), domain)}} : TRUE

RECURSIVE addRows(_, _, _)
addRows(subs, data, domain) ==
    IF Len(data) = 0 THEN subs
    ELSE CHOOSE all \in {addRows(added, Tail(data), domain) :
                           added \in {addParts(subs, split(Head(data)), domain)}} : TRUE

\* a body that is no array makes the for-of or the split throw: caught, []
fetchSubdomains_subdomain_js(d, res) ==
    IF res.kind # "ok" THEN <<>> ELSE addRows(<<>>, res.data, d)

(***************************************************************************)
(* String.prototype.localeCompare on item names: blank, punctuation, then  *)
(* letters, compared left to right by collation weight.                    *)
(***************************************************************************)
CollationWeight(c) ==
    CASE c = NL  -> 0
      [] c = " " -> 1
      [] c = "." -> 2
      [] c = "*" -> 3
      [] OTHER   -> CodeUnit(LowerChar(c))

RECURSIVE localeLess(_, _)
localeLess(s, t) ==
    IF Len(t) = 0 THEN FALSE
    ELSE IF Len(s) = 0 THEN TRUE
    ELSE IF CollationWeight(s[1]) = CollationWeight(t[1])
         THEN localeLess(Tail(s), Tail(t))
    ELSE CollationWeight(s[1]) < CollationWeight(t[1])

RECURSIVE InsertRecord(_, _)
InsertRecord(r, sorted) ==
    IF Len(sorted) = 0 THEN <<r>>
    ELSE IF localeLess(r.item, Head(sorted).item) THEN <<r>> \o sorted
    ELSE <<Head(sorted)>> \o InsertRecord(r, Tail(sorted))

\* sortByItem that leaves the records in the order they arrived
sortByItem_asArrived(list) == list

\* resolved.sort((a, b) => a.item.localeCompare(b.item))
RECURSIVE sortByItem(_)
sortByItem(list) ==
    IF Len(list) = 0 THEN <<>>
    ELSE CHOOSE sorted \in {InsertRecord(list[Len(list)], front) :
                              front \in {sortByItem(SubSeq(list, 1, Len(list) - 1))}} : TRUE

(***************************************************************************)
(* The resolver's answers.  A strategy call fails or returns addresses of  *)
(* the host asked for; the generic lookup may return both families.        *)
(***************************************************************************)
Strategies == {"lookup", "resolve4", "resolve6"}

V4(host) == <<"A", host>>
V6(host) == <<"AAAA", host>>

\* a call that throws (ENOTFOUND, ENODATA, ETIMEOUT, ...)
Failure == [ok |-> FALSE, addresses |-> <<>>]

Success(addresses) == [ok |-> TRUE, addresses |-> addresses]

Answers(strategy, host) ==
    CASE strategy = "lookup"   -> {Success(<<V4(host)>>), Success(<<V4(host), V6(host)>>)}
      [] strategy = "resolve4" -> {Success(<<V4(host)>>)}
      [] strategy = "resolve6" -> {Success(<<V6(host)>>)}

NextStrategy(strategy) ==
    CASE strategy = "lookup"   -> "resolve4"
      [] strategy = "resolve4" -> "resolve6"
      [] strategy = "resolve6" -> "return"

\* `for (const ip of answer) ips.add(ip)`
RECURSIVE addAll(_, _)
addAll(ips, answer) ==
    IF Len(answer) = 0 THEN ips
    ELSE addAll(SetAdd(ips, Head(answer)), Tail(answer))

\* afterStrategy with one try block around all three calls' results: a
\* failure discards what the earlier strategies found
afterStrategy_discard(ips, answer) ==
    IF answer.ok THEN addAll(ips, answer.addresses) ELSE <<>>

\* one try/catch block of resolveHost: a failed call leaves ips as it was
afterStrategy(ips, answer) ==
    IF answer.ok THEN addAll(ips, answer.addresses) ELSE ips

(***************************************************************************)
(* State.                                                                  *)
(***************************************************************************)
VARIABLES
    script,       \* what runs: "subfinder", "subdomain.js" or "concurrencyMap"
    domain,       \* the target domain
    response,     \* what the certificate-log query will answer
    pcMain,       \* where main (or the caller of concurrencyMap) is
    subdomains,   \* the list fetchSubdomains returned
    items,        \* concurrencyMap's parameters
    mapper,
    concurrency,
    index,        \* concurrencyMap's cursor
    out,          \* concurrencyMap's result collection
    worker,       \* the workers: where each is suspended and its locals
    resolved,     \* what concurrencyMap returned, as main left it
    listing,      \* the hosts main printed, with their addresses
    summary,      \* the summary main printed
    calls,        \* history: the indices the mapper was invoked for, in order
    settled,     \* history: <<index, strategy, answer>> of each settled call
    lost,         \* history: how many calls the resolver left unanswered
    repeated,     \* history: the hostnames two or more raw names contributed
    arrival,      \* history: the mapper calls in the order they settled
    outstanding,  \* history: the calls <<index, call>> started and not settled
    pending,      \* subdomain.js: the hosts resolveSubdomains has yet to query
    liveMap       \* subdomain.js: the entries of liveMap, in insertion order

vars == <<script, domain, response, pcMain, subdomains, items, mapper,
          concurrency, index, out, worker, resolved, listing, summary,
          calls, settled, lost, repeated, arrival, outstanding, pending,
          liveMap>>

Undefined == <<"undefined">>

MAX_CONCURRENT == 20

InFlightPcs == {"lookup", "resolve4", "resolve6", "mapper"}

Workers == DOMAIN worker

InFlight == {w \in Workers : worker[w].pc \in InFlightPcs}

Finished ==
    [pc |-> "finished", i |-> -1, item |-> Undefined, ips |-> <<>>, silent |-> FALSE]

NotStarted ==
    [pc |-> "notStarted", i |-> -1, item |-> Undefined, ips |-> <<>>, silent |-> FALSE]

NoSummary == [found |-> -1, total |-> -1, resolved |-> -1]

(***************************************************************************)
(* concurrencyMap.  A worker runs from one await to the next without       *)
(* interruption; st holds the closure's index, the workers and the         *)
(* history of mapper calls.                                                *)
(***************************************************************************)
\* where the mapper first suspends: resolveHost at dns.lookup
FirstPc(mp) == IF mp = "resolveHost" THEN "lookup" ELSE "mapper"

\* CallsStarted of a resolveHost that issues its three queries together
CallsStarted_allAtOnce(mp) ==
    IF mp = "resolveHost" THEN Strategies ELSE {FirstPc(mp)}

\* the calls one invocation of the mapper has outstanding when it first
\* suspends: resolveHost awaits dns.lookup before it calls anything else
CallsStarted(mp) == {FirstPc(mp)}

\* the calls outstanding for the item worker w holds in the workers ws
OutstandingOf(ws, w, mp) ==
    IF ws[w].pc \in InFlightPcs THEN {<<ws[w].i, c>> : c \in CallsStarted(mp)} ELSE {}

\* claimNext over a fixed share of the items: the worker w of K takes the
\* indices w - 1, w - 1 + K, ... instead of the next unclaimed one
claimNext_ownShare(st, w, its, mp) ==
    IF (IF st.worker[w].pc = "notStarted" THEN w - 1
        ELSE st.worker[w].i + Len(st.worker)) >= Len(its)
    THEN [st EXCEPT !.index = @ + 1, !.worker[w] = Finished]
    ELSE [st EXCEPT !.index = @ + 1,
                    !.worker[w] = [pc |-> FirstPc(mp),
                                   i |-> IF st.worker[w].pc = "notStarted" THEN w - 1
                                         ELSE st.worker[w].i + Len(st.worker),
                                   item |-> its[(IF st.worker[w].pc = "notStarted"
                                                 THEN w - 1
                                                 ELSE st.worker[w].i + Len(st.worker)) + 1],
                                   ips |-> <<>>, silent |-> FALSE],
                    !.calls = Append(@, IF st.worker[w].pc = "notStarted" THEN w - 1
                                        ELSE st.worker[w].i + Len(st.worker))]

\* claimNext that hands the items out from the end of the list
claimNext_fromEnd(st, w, its, mp) ==
    IF st.index >= Len(its)
    THEN [st EXCEPT !.index = @ + 1, !.worker[w] = Finished]
    ELSE [st EXCEPT !.index = @ + 1,
                    !.worker[w] = [pc |-> FirstPc(mp), i |-> Len(its) - 1 - st.index,
                                   item |-> its[Len(its) - st.index], ips |-> <<>>,
                                   silent |-> FALSE],
                    !.calls = Append(@, Len(its) - 1 - st.index)]

\* claimNext with the test `i > items.length`: the index one past the end
\* is claimed too, and its item is undefined
claimNext_pastEnd(st, w, its, mp) ==
    IF st.index > Len(its)
    THEN [st EXCEPT !.index = @ + 1, !.worker[w] = Finished]
    ELSE [st EXCEPT !.index = @ + 1,
                    !.worker[w] = [pc |-> FirstPc(mp), i |-> st.index,
                                   item |-> IF st.index < Len(its)
                                            THEN its[st.index + 1] ELSE Undefined,
                                   ips |-> <<>>, silent |-> FALSE],
                    !.calls = Append(@, st.index)]

\* claimNext with one address set per worker, never emptied between items
claimNext_sharedIps(st, w, its, mp) ==
    IF st.index >= Len(its)
    THEN [st EXCEPT !.index = @ + 1, !.worker[w] = Finished]
    ELSE [st EXCEPT !.index = @ + 1,
                    !.worker[w] = [pc |-> FirstPc(mp), i |-> st.index,
                                   item |-> its[st.index + 1],
                                   ips |-> st.worker[w].ips, silent |-> FALSE],
                    !.calls = Append(@, st.index)]

\* claimNext with the cursor read but not advanced when an item is claimed
claimNext_stale(st, w, its, mp) ==
    IF st.index >= Len(its)
    THEN [st EXCEPT !.index = @ + 1, !.worker[w] = Finished]
    ELSE [st EXCEPT !.worker[w] = [pc |-> FirstPc(mp), i |-> st.index,
                                   item |-> its[st.index + 1], ips |-> <<>>,
                                   silent |-> FALSE],
                    !.calls = Append(@, st.index)]

\* `const i = index++; if (i >= items.length) return; ... await mapper(item)`
claimNext(st, w, its, mp) ==
    IF st.index >= Len(its)
    THEN [st EXCEPT !.index = @ + 1, !.worker[w] = Finished]
    ELSE [st EXCEPT !.index = @ + 1,
                    !.worker[w] = [pc |-> FirstPc(mp), i |-> st.index,
                                   item |-> its[st.index + 1], ips |-> <<>>,
                                   silent |-> FALSE],
                    !.calls = Append(@, st.index)]

\* Array.from({ length: concurrency }, async () => ...): the workers start
\* one after the other, each running to its first await
RECURSIVE startWorkers(_, _, _, _, _)
startWorkers(st, w, K, its, mp) ==
    IF w > K THEN st
    ELSE CHOOSE after \in {startWorkers(started, w + 1, K, its, mp) :
                             started \in {claimNext(st, w, its, mp)}} : TRUE

\* CallConcurrencyMap with one worker per item, whatever the limit
CallConcurrencyMap_unbounded(its, mp, K) ==
    \E st \in {startWorkers([index |-> 0,
                             worker |-> [w \in 1..Len(its) |-> NotStarted],
                             calls |-> <<>>], 1, Len(its), its, mp)} :
        /\ items' = its
        /\ mapper' = mp
        /\ concurrency' = K
        /\ out' = <<>>
        /\ index' = st.index
        /\ worker' = st.worker
        /\ calls' = st.calls
        /\ arrival' = <<>>
        /\ outstanding' = UNION {OutstandingOf(st.worker, w, mp) : w \in DOMAIN st.worker}

\* the call concurrencyMap(its, mp, K) up to `await Promise.all(workers)`
CallConcurrencyMap(its, mp, K) ==
    \E st \in {startWorkers([index |-> 0, worker |-> [w \in 1..K |-> NotStarted],
                             calls |-> <<>>], 1, K, its, mp)} :
        /\ items' = its
        /\ mapper' = mp
        /\ concurrency' = K
        /\ out' = <<>>
        /\ index' = st.index
        /\ worker' = st.worker
        /\ calls' = st.calls
        /\ arrival' = <<>>
        /\ outstanding' = UNION {OutstandingOf(st.worker, w, mp) : w \in DOMAIN st.worker}

\* ResultRecord with `item` declared outside the worker's loop, one variable
\* shared by all workers: the record gets the item claimed last
ResultRecord_lastClaimed(item, result) ==
    [item |-> items[IF index < Len(items) THEN index ELSE Len(items)],
     has |-> "result", result |-> result, error |-> ""]

\* ErrorRecord that stores the failure where a result goes
ErrorRecord_asResult(item, err) ==
    [item |-> item, has |-> "result", result |-> <<err>>, error |-> ""]

\* out.push({ item, result }) or out.push({ item, error: err })
\* (has says which of the two fields the object carries)
ResultRecord(item, result) ==
    [item |-> item, has |-> "result", result |-> result, error |-> ""]
ErrorRecord(item, err) ==
    [item |-> item, has |-> "error", result |-> <<>>, error |-> err]

\* WorkerContinues with a worker that returns when its mapper call rejects
WorkerContinues_failFast(w, record) ==
    \E st \in {IF record.has = "error"
                THEN [index |-> index, worker |-> [worker EXCEPT ![w] = Finished],
                      calls |-> calls]
                ELSE claimNext([index |-> index, worker |-> worker, calls |-> calls],
                               w, items, mapper)} :
        /\ out' = Append(out, record)
        /\ index' = st.index
        /\ worker' = st.worker
        /\ calls' = st.calls
        /\ outstanding' = (outstanding \ {<<worker[w].i, worker[w].pc>>})
                              \cup OutstandingOf(st.worker, w, mapper)

\* WorkerContinues without the loop: a worker handles one item and returns
WorkerContinues_once(w, record) ==
    /\ out' = Append(out, record)
    /\ worker' = [worker EXCEPT ![w] = Finished]
    /\ outstanding' = outstanding \ {<<worker[w].i, worker[w].pc>>}
    /\ UNCHANGED <<index, calls>>

\* the worker's continuation after `await mapper(item)`: push, loop
WorkerContinues(w, record) ==
    \E st \in {claimNext([index |-> index, worker |-> worker, calls |-> calls],
                         w, items, mapper)} :
        /\ out' = Append(out, record)
        /\ index' = st.index
        /\ worker' = st.worker
        /\ calls' = st.calls
        /\ outstanding' = (outstanding \ {<<worker[w].i, worker[w].pc>>})
                              \cup OutstandingOf(st.worker, w, mapper)

(***************************************************************************)
(* resolveHost: three strategy calls, one after the other.                 *)
(***************************************************************************)
\* the continuation of resolveHost after the call at worker[w].pc settles
StrategySettles(w, strategy, answer) ==
    /\ pcMain = "resolving"
    /\ w \in Workers
    /\ worker[w].pc = strategy
    /\ ~worker[w].silent
    /\ settled' = settled \cup {<<worker[w].i, strategy, answer>>}
    /\ IF NextStrategy(strategy) = "return"
       THEN /\ WorkerContinues(w, ResultRecord(worker[w].item,
                                               afterStrategy(worker[w].ips, answer)))
            /\ arrival' = Append(arrival, [i |-> worker[w].i, ok |-> TRUE])
       ELSE /\ worker' = [worker EXCEPT ![w].pc = NextStrategy(strategy),
                                        ![w].ips = afterStrategy(@, answer)]
            /\ outstanding' = (outstanding \ {<<worker[w].i, strategy>>})
                                  \cup {<<worker[w].i, NextStrategy(strategy)>>}
            /\ UNCHANGED <<out, index, calls, arrival>>
    /\ UNCHANGED <<script, domain, response, pcMain, subdomains, items, mapper,
                   concurrency, resolved, listing, summary, lost, repeated,
                   pending, liveMap>>

LookupSettles ==
    \E w \in Workers :
        \E answer \in Answers("lookup", worker[w].item) \cup {Failure} :
            StrategySettles(w, "lookup", answer)

Resolve4Settles ==
    \E w \in Workers :
        \E answer \in Answers("resolve4", worker[w].item) \cup {Failure} :
            StrategySettles(w, "resolve4", answer)

Resolve6Settles ==
    \E w \in Workers :
        \E answer \in Answers("resolve6", worker[w].item) \cup {Failure} :
            StrategySettles(w, "resolve6", answer)

(***************************************************************************)
(* Any other mapper: it suspends once, then resolves with a value or       *)
(* rejects.                                                                *)
(***************************************************************************)
MapperValues(item) == {<<V4(item)>>}

MapperError == "Error"

MapperResolves ==
    \E w \in Workers :
        /\ pcMain = "resolving"
        /\ worker[w].pc = "mapper"
        /\ ~worker[w].silent
        /\ \E value \in MapperValues(worker[w].item) :
               WorkerContinues(w, ResultRecord(worker[w].item, value))
        /\ arrival' = Append(arrival, [i |-> worker[w].i, ok |-> TRUE])
        /\ UNCHANGED <<script, domain, response, pcMain, subdomains, items, mapper,
                       concurrency, resolved, listing, summary, settled, lost,
                       repeated, pending, liveMap>>

MapperRejects ==
    \E w \in Workers :
        /\ pcMain = "resolving"
        /\ worker[w].pc = "mapper"
        /\ ~worker[w].silent
        /\ WorkerContinues(w, ErrorRecord(worker[w].item, MapperError))
        /\ arrival' = Append(arrival, [i |-> worker[w].i, ok |-> FALSE])
        /\ UNCHANGED <<script, domain, response, pcMain, subdomains, items, mapper,
                       concurrency, resolved, listing, summary, settled, lost,
                       repeated, pending, liveMap>>

(***************************************************************************)
(* The environment: a call the resolver never answers.  Neither script     *)
(* passes a timeout to dns.lookup, dns.resolve4 or dns.resolve6 or sets a  *)
(* timer of its own, so nothing in the program ends such a call.           *)
(***************************************************************************)
NeverAnswers ==
    \E w \in Workers :
        /\ pcMain = "resolving"
        /\ worker[w].pc \in InFlightPcs
        /\ ~worker[w].silent
        /\ lost < MaxLost
        /\ worker' = [worker EXCEPT ![w].silent = TRUE]
        /\ lost' = lost + 1
        /\ UNCHANGED <<script, domain, response, pcMain, subdomains, items, mapper,
                       concurrency, index, out, resolved, listing, summary, calls,
                       settled, repeated, arrival, outstanding, pending, liveMap>>

(***************************************************************************)
(* `await Promise.all(workers); return out;` and what the caller does      *)
(* with the result.                                                        *)
(***************************************************************************)
AllWorkersFinished == \A w \in Workers : worker[w].pc = "finished"

\* IsListed that asks only whether the record carries a result
IsListed_anyResult(record) == record.has = "result"

\* `if (result && result.length > 0)`
IsListed(record) == record.has = "result" /\ Len(record.result) > 0

\* main after concurrencyMap returned: sort, print the hosts, count, summary
MainPrints ==
    \E sorted \in {sortByItem(out)} :
        /\ resolved' = sorted
        /\ out' = sorted
        /\ listing' = SelectSeq(sorted, IsListed)
        /\ summary' = [summary EXCEPT !.total = Len(subdomains),
                                      !.resolved = Len(SelectSeq(sorted, IsListed))]
        /\ pcMain' = "done"

PromiseAllResolves ==
    /\ pcMain = "resolving"
    /\ AllWorkersFinished
    /\ IF script = "subfinder"
       THEN MainPrints
       ELSE /\ resolved' = out
            /\ pcMain' = "returned"
            /\ UNCHANGED <<out, listing, summary>>
    /\ UNCHANGED <<script, domain, response, subdomains, items, mapper,
                   concurrency, index, worker, calls, settled, lost, repeated,
                   arrival, outstanding, pending, liveMap>>

(***************************************************************************)
(* The certificate-log query settles and fetchSubdomains returns; then     *)
(* main of subfinder.js runs on to `await Promise.all(workers)` or to its  *)
(* early return.                                                           *)
(***************************************************************************)
Consumed == [kind |-> "consumed", data |-> <<>>]

\* the raw names of a response, one per line of each entry, as <<entry, line>>
RawPlaces(res) ==
    UNION {{<<e, l>> : l \in 1..Len(split(res.data[e]))} : e \in 1..Len(res.data)}

RawName(res, place) == split(res.data[place[1]])[place[2]]

\* what one raw name on its own puts into the candidate set
Contribution(d, n) == Range(addName(<<>>, n, d))

RepeatedNames(d, res) ==
    {h \in UNION {Contribution(d, RawName(res, p)) : p \in RawPlaces(res)} :
        Cardinality({p \in RawPlaces(res) : h \in Contribution(d, RawName(res, p))}) >= 2}

FetchReturns ==
    /\ script = "subfinder"
    /\ pcMain = "fetching"
    /\ subdomains' = fetchSubdomains(domain, response)
    /\ pcMain' = "fetched"
    /\ UNCHANGED <<script, domain, response, items, mapper, concurrency, index,
                   out, worker, resolved, listing, summary, calls, settled, lost,
                   repeated, arrival, outstanding, pending, liveMap>>

MainContinues ==
    /\ script = "subfinder"
    /\ pcMain = "fetched"
    /\ response' = IF response.kind = "ok" THEN Consumed ELSE response
    /\ repeated' = RepeatedNames(domain, response)
    /\ summary' = [summary EXCEPT !.found = Len(subdomains)]
    /\ IF Len(subdomains) = 0
       THEN /\ pcMain' = "done"
            /\ UNCHANGED <<items, mapper, concurrency, index, out, worker, calls,
                           arrival, outstanding>>
       ELSE /\ pcMain' = "resolving"
            /\ CallConcurrencyMap(subdomains, "resolveHost", MAX_CONCURRENT)
    /\ UNCHANGED <<script, domain, subdomains, resolved, listing, settled, lost,
                   pending, liveMap>>

(***************************************************************************)
(* concurrencyMap driven on its own, with any items, mapper and limit.     *)
(***************************************************************************)
CallerCalls ==
    /\ script = "concurrencyMap"
    /\ pcMain = "calling"
    /\ pcMain' = "resolving"
    /\ CallConcurrencyMap(items, mapper, concurrency)
    /\ UNCHANGED <<script, domain, response, subdomains, resolved, listing,
                   summary, settled, lost, repeated, pending, liveMap>>

\* main's loop over the returned records and its summary, run on what
\* concurrencyMap returned to a caller with any mapper; the caller's list of
\* candidates is the list it passed as items
CallerPrints ==
    /\ script = "concurrencyMap"
    /\ pcMain = "returned"
    /\ \E sorted \in {sortByItem(resolved)} :
           /\ resolved' = sorted
           /\ out' = sorted
           /\ listing' = SelectSeq(sorted, IsListed)
           /\ summary' = [summary EXCEPT !.total = Len(items),
                                         !.resolved = Len(SelectSeq(sorted, IsListed))]
    /\ pcMain' = "done"
    /\ UNCHANGED <<script, domain, response, subdomains, items, mapper,
                   concurrency, index, worker, calls, settled, lost, repeated,
                   arrival, outstanding, pending, liveMap>>

(***************************************************************************)
(* Inputs.                                                                 *)
(***************************************************************************)
Strings(n) == UNION {[1..k -> Alphabet] : k \in 0..n}

\* the hosts handed to concurrencyMap on its own: a.a, aa.a, aaa.a, ...
Host(j) == [k \in 1..j |-> "a"] \o <<".", "a">>

ItemList(n) == [j \in 1..n |-> Host(j)]

\* name_value strings of the whole program's responses, for the domain "a"
RawPool ==
    { <<"*", ".", "a">>,
      <<"A", ".", "a", " ">>,
      <<"a", ".", "a", NL, "*", ".", "a">>,
      <<"a", "a">>,
      <<"a", ".", "A">> }

Responses(entries) ==
    {OkResponse(data) : data \in UNION {[1..k -> RawPool] : k \in 0..entries}}
        \cup {NotArrayResponse, FailedResponse}

\* `const domain = args[0].toLowerCase()`
domainOf(arg) == toLowerCase(arg)

Quiet ==
    /\ subdomains = <<>>
    /\ items = <<>>
    /\ mapper = "none"
    /\ concurrency = 0
    /\ index = 0
    /\ out = <<>>
    /\ worker = <<>>
    /\ resolved = <<>>
    /\ listing = <<>>
    /\ summary = NoSummary
    /\ calls = <<>>
    /\ settled = {}
    /\ lost = 0
    /\ repeated = {}
    /\ arrival = <<>>
    /\ outstanding = {}
    /\ pending = <<>>
    /\ liveMap = <<>>

InitMainWith(entries) ==
    /\ script = "subfinder"
    /\ domain = domainOf(<<"A">>)
    /\ response \in Responses(entries)
    /\ pcMain = "fetching"
    /\ Quiet

InitMain == InitMainWith(MaxEntries)

InitCallerWith(mp, most) ==
    /\ script = "concurrencyMap"
    /\ domain = <<>>
    /\ response = Consumed
    /\ pcMain = "calling"
    /\ subdomains = <<>>
    /\ mapper = mp
    /\ items \in {ItemList(n) : n \in 0..most}
    /\ concurrency \in 1..MaxK
    /\ index = 0
    /\ out = <<>>
    /\ worker = <<>>
    /\ resolved = <<>>
    /\ listing = <<>>
    /\ summary = NoSummary
    /\ calls = <<>>
    /\ settled = {}
    /\ lost = 0
    /\ repeated = {}
    /\ arrival = <<>>
    /\ outstanding = {}
    /\ pending = <<>>
    /\ liveMap = <<>>

InitCaller ==
    InitCallerWith("anyMapper", MaxN) \/ InitCallerWith("resolveHost", MaxResolve)

Init == InitMain \/ InitCaller

Next ==
    \/ FetchReturns
    \/ MainContinues
    \/ CallerCalls
    \/ LookupSettles
    \/ Resolve4Settles
    \/ Resolve6Settles
    \/ MapperResolves
    \/ MapperRejects
    \/ NeverAnswers
    \/ PromiseAllResolves
    \/ CallerPrints

Spec == Init /\ [][Next]_vars

\* subfinder.js as it runs: main from its start
NextMain ==
    \/ FetchReturns
    \/ MainContinues
    \/ LookupSettles
    \/ Resolve4Settles
    \/ Resolve6Settles
    \/ NeverAnswers
    \/ PromiseAllResolves

SpecMain == InitMain /\ [][NextMain]_vars

\* concurrencyMap called on its own
NextCaller ==
    \/ CallerCalls
    \/ LookupSettles
    \/ Resolve4Settles
    \/ Resolve6Settles
    \/ MapperResolves
    \/ MapperRejects
    \/ NeverAnswers
    \/ PromiseAllResolves
    \/ CallerPrints

SpecCaller == InitCaller /\ [][NextCaller]_vars

\* every step the program takes; NeverAnswers is the resolver's
Progress ==
    \/ FetchReturns
    \/ MainContinues
    \/ CallerCalls
    \/ LookupSettles
    \/ Resolve4Settles
    \/ Resolve6Settles
    \/ MapperResolves
    \/ MapperRejects
    \/ PromiseAllResolves
    \/ CallerPrints

\* the event loop runs every continuation that is ready, and a call the
\* resolver has not dropped settles
InitFair == InitMainWith(MaxFairEntries) \/ InitCallerWith("anyMapper", MaxN)

FairSpec == InitFair /\ [][Next]_vars /\ WF_vars(Progress)

(***************************************************************************)
(* The two fetchSubdomains applied on their own to every short response:   *)
(* one entry whose name_value is any string over Alphabet of at most       *)
(* MaxLen characters, for the domain arguments "a", "A" and "a.a"; and the *)
(* example.com response of the documentation.                              *)
(***************************************************************************)
ExampleCom == <<"e", "x", "a", "m", "p", "l", "e", ".", "c", "o", "m">>

ExampleCandidates ==
    << <<"*", ".">> \o ExampleCom,
       <<"W", "W", "W", ".">> \o ExampleCom \o <<" ">>,
       <<"a", "p", "i", ".">> \o ExampleCom,
       <<"e", "v", "i", "l">> \o ExampleCom >>

ExampleNormalized ==
    { ExampleCom,
      <<"w", "w", "w", ".">> \o ExampleCom,
      <<"a", "p", "i", ".">> \o ExampleCom }

DomainArgs == { <<"a">>, <<"A">>, <<"a", ".", "a">> }

NormInputs ==
    {<<arg, <<nameValue>>>> : arg \in DomainArgs, nameValue \in Strings(MaxLen)}
        \cup {<<ExampleCom, ExampleCandidates>>}

\* subdomain.js: `resolve(answer.trim() || "example.com")`, answer not blank
askDomain(answer) == trim(answer)

InitNorm ==
    /\ script \in {"subfinder", "subdomain.js"}
    /\ \E input \in NormInputs :
           /\ domain = IF script = "subfinder" THEN domainOf(input[1])
                       ELSE askDomain(input[1])
           /\ response = OkResponse(input[2])
    /\ pcMain = "fetching"
    /\ Quiet

\* fetchSubdomains of subdomain.js returns
FetchReturns_subdomain_js ==
    /\ script = "subdomain.js"
    /\ pcMain = "fetching"
    /\ subdomains' = fetchSubdomains_subdomain_js(domain, response)
    /\ pcMain' = "fetched"
    /\ UNCHANGED <<script, domain, response, items, mapper, concurrency, index,
                   out, worker, resolved, listing, summary, calls, settled, lost,
                   repeated, arrival, outstanding, pending, liveMap>>

NextNorm == FetchReturns \/ FetchReturns_subdomain_js

(***************************************************************************)
(* The two scripts run from their start, subdomain.js with its sequential  *)
(* resolveSubdomains, on responses of at most MaxFairEntries entries and   *)
(* on failed queries.                                                      *)
(***************************************************************************)
\* subdomain.js main after fetchSubdomains returned: the count is printed
\* and resolveSubdomains runs to its first `await dns.resolve4(sub)`, or,
\* with nothing to iterate over, main runs to its end
SubdomainJsContinues ==
    /\ script = "subdomain.js"
    /\ pcMain = "fetched"
    /\ IF Len(subdomains) = 0
       THEN /\ pcMain' = "done"
            /\ summary' = [summary EXCEPT !.found = 0, !.resolved = Len(liveMap)]
            /\ UNCHANGED <<pending, outstanding>>
       ELSE /\ pcMain' = "resolving4"
            /\ summary' = [summary EXCEPT !.found = Len(subdomains)]
            /\ pending' = subdomains
            /\ outstanding' = {<<0, "resolve4">>}
    /\ UNCHANGED <<script, domain, response, subdomains, items, mapper,
                   concurrency, index, out, worker, resolved, listing, calls,
                   settled, lost, repeated, arrival, liveMap>>

\* `const ips = await dns.resolve4(sub)` settles: liveMap.set or skip, then
\* the next host, or the return and the end of main
SubdomainJsResolve4Settles ==
    /\ script = "subdomain.js"
    /\ pcMain = "resolving4"
    /\ \E answer \in Answers("resolve4", Head(pending)) \cup {Failure} :
           liveMap' = IF answer.ok
                      THEN Append(liveMap, [sub |-> Head(pending),
                                            ips |-> answer.addresses])
                      ELSE liveMap
    /\ pending' = Tail(pending)
    /\ IF Len(pending) = 1
       THEN /\ pcMain' = "done"
            /\ summary' = [summary EXCEPT !.resolved = Len(liveMap')]
            /\ outstanding' = {}
       ELSE /\ outstanding' = {<<Len(subdomains) - Len(pending) + 1, "resolve4">>}
            /\ UNCHANGED <<pcMain, summary>>
    /\ UNCHANGED <<script, domain, response, subdomains, items, mapper,
                   concurrency, index, out, worker, resolved, listing, calls,
                   settled, lost, repeated, arrival>>

InitSubdomainJs ==
    /\ script = "subdomain.js"
    /\ domain = askDomain(<<"a", " ">>)
    /\ response \in Responses(MaxFairEntries)
    /\ pcMain = "fetching"
    /\ Quiet

InitScripts == InitMainWith(MaxFairEntries) \/ InitSubdomainJs

NextScripts ==
    \/ FetchReturns
    \/ MainContinues
    \/ LookupSettles
    \/ Resolve4Settles
    \/ Resolve6Settles
    \/ NeverAnswers
    \/ PromiseAllResolves
    \/ FetchReturns_subdomain_js
    \/ SubdomainJsContinues
    \/ SubdomainJsResolve4Settles

\* every step of the two scripts; NeverAnswers is the resolver's
ProgressScripts ==
    \/ FetchReturns
    \/ MainContinues
    \/ LookupSettles
    \/ Resolve4Settles
    \/ Resolve6Settles
    \/ PromiseAllResolves
    \/ FetchReturns_subdomain_js
    \/ SubdomainJsContinues
    \/ SubdomainJsResolve4Settles

SpecScripts == InitScripts /\ [][NextScripts]_vars /\ WF_vars(ProgressScripts)

SpecNorm == InitNorm /\ [][NextNorm]_vars

(***************************************************************************)
(* Properties of the normalizer.                                           *)
(***************************************************************************)
\* h is d or a name below d: the suffix match at a label boundary
UnderDomain(h, d) == h = d \/ endsWith(h, <<".">> \o d)

\* the trimmed, lowercased, wildcard-stripped form of a raw name
Canonical(n) == replaceWildcard(toLowerCase(trim(n)))

Fetched == pcMain = "fetched"

\* C6: every hostname fetchSubdomains returns for the domain d is d itself
\* or ends with "." + d; a name like "evil" + d is not among them.
C6_LabelBoundary ==
    Fetched => \A h \in Range(subdomains) : UnderDomain(h, domain)

\* C7: every raw name whose trimmed, lowercased, wildcard-stripped form is
\* d or ends with "." + d is accepted, whatever its letter case, and that
\* lowercased form is the value in the candidate set.
C7_AcceptsAnyCase ==
    (Fetched /\ domain = toLowerCase(domain)) =>
        \A p \in RawPlaces(response) :
            UnderDomain(Canonical(RawName(response, p)), domain)
                => Canonical(RawName(response, p)) \in Range(subdomains)

\* C8: a raw name "*." + h, with h equal to d or ending with "." + d, puts h
\* into the candidate set and never the string "*." + h itself; and the
\* candidates "*.example.com", "WWW.example.com ", "api.example.com",
\* "evilexample.com" give exactly example.com, www.example.com and
\* api.example.com for the domain example.com.
C8_WildcardAndExample ==
    Fetched =>
        /\ \A p \in RawPlaces(response) :
               LET n == RawName(response, p)
               IN (startsWith(n, <<"*", ".">>)
                     /\ UnderDomain(SubSeq(n, 3, Len(n)), domain)
                     /\ Cardinality(RawPlaces(response)) = 1)
                  => Range(subdomains) = {toLowerCase(SubSeq(n, 3, Len(n)))}
        /\ (domain = ExampleCom /\ response.data = ExampleCandidates)
               => Range(subdomains) = ExampleNormalized

(***************************************************************************)
(* Properties of concurrencyMap, resolveHost and main.                     *)
(***************************************************************************)
N == Len(items)

\* concurrencyMap was called and has returned
Returned == mapper # "none" /\ pcMain \in {"returned", "done"}

Resolving == pcMain = "resolving"

\* concurrencyMap has been called
Called == mapper # "none" /\ pcMain \in {"resolving", "returned", "done"}

\* mapper calls started and not yet settled
NumInFlight == Len(calls) - Len(out)

RecordsOf(list, item) == {k \in 1..Len(list) : list[k].item = item}

CallsFor(i) == {k \in 1..Len(calls) : calls[k] = i}

\* C1: no index is ever claimed twice, and when concurrencyMap returns the
\* mapper has been invoked exactly once for every index 0..N-1 and the
\* returned collection holds exactly N records, one per input hostname.
C1_ExactlyOnce ==
    /\ \A i \in 0..(N - 1) : Cardinality(CallsFor(i)) <= 1
    /\ \A k \in 1..Len(calls) : calls[k] \in 0..(N - 1)
    /\ Returned =>
         /\ \A i \in 0..(N - 1) : Cardinality(CallsFor(i)) = 1
         /\ Len(resolved) = N
         /\ \A i \in 1..N : Cardinality(RecordsOf(resolved, items[i])) = 1

\* a run with fewer workers than items, failures included, has returned
C1_Witness ==
    /\ Returned
    /\ concurrency >= 2
    /\ N > concurrency
    /\ \E k \in 1..Len(resolved) : resolved[k].has = "error"
    /\ \E k \in 1..Len(resolved) : resolved[k].has = "result"

\* C2: at every moment the number of mapper calls started and not yet
\* settled is at most the concurrency limit.
C2_AtMostK ==
    /\ NumInFlight <= concurrency
    /\ Cardinality(InFlight) = NumInFlight

\* the limit is reached while items are still waiting
C2_Witness ==
    /\ Resolving
    /\ concurrency >= 2
    /\ NumInFlight = concurrency
    /\ index < N
    /\ Len(out) > 0

\* C3: concurrencyMap returns only when every worker has seen the cursor past
\* the end and every started call has settled; a worker stops only when the
\* cursor is past the end, also after its mapper call was rejected.
C3_NoEarlyReturn ==
    /\ Returned => /\ AllWorkersFinished
                   /\ Len(out) = Len(calls)
                   /\ index = N + concurrency
    /\ \A w \in Workers : worker[w].pc = "finished" => index > N
    /\ (Called /\ index < N) => Resolving /\ NumInFlight > 0

\* a call was rejected, its worker has claimed another item, and other
\* calls are in flight while items are still unclaimed
C3_Witness ==
    /\ Resolving
    /\ \E k \in 1..Len(out) : out[k].has = "error"
    /\ Len(calls) > concurrency
    /\ NumInFlight >= 2
    /\ index < N

\* C4: as long as the resolver answers every call, some call is in flight
\* while items are unclaimed, and the run reaches its end: concurrencyMap
\* returns, and main prints its summary.
Finale ==
    \/ script = "concurrencyMap" /\ pcMain = "returned"
    \/ script = "subfinder" /\ pcMain = "done"
         /\ (summary.found = 0 \/ (summary.total >= 0 /\ summary.resolved >= 0))

C4_RunsToCompletion ==
    /\ []((Resolving /\ lost = 0 /\ index < N) => InFlight # {})
    /\ []((Resolving /\ lost = 0) => ENABLED Progress)
    /\ <>(Finale \/ lost > 0)

\* main has printed the summary of a batch of several hosts, all answered
C4_Witness ==
    /\ script = "subfinder"
    /\ pcMain = "done"
    /\ lost = 0
    /\ summary.total >= 2
    /\ summary.resolved >= 1

\* C5: every strategy call is bounded by a timeout, so a call the resolver
\* never answers ends as a failure and the batch cannot stall: while
\* concurrencyMap is running, some continuation is always due.
C5_CannotStall == Resolving => ENABLED Progress

\* C9: a hostname that two or more raw names of the response contribute
\* occurs exactly once in the list handed to concurrencyMap, the mapper is
\* invoked for it at most once (exactly once when the run ends), and it has
\* at most one outcome record and one line in the listing.
Occurrences(list, h) == {k \in 1..Len(list) : list[k] = h}

C9_Deduplicated ==
    \A h \in repeated :
        /\ Cardinality(Occurrences(subdomains, h)) = 1
        /\ Cardinality({k \in 1..Len(calls) : items[calls[k] + 1] = h}) <= 1
        /\ Cardinality(RecordsOf(out, h)) <= 1
        /\ Cardinality(RecordsOf(listing, h)) <= 1
        /\ pcMain = "done" =>
             Cardinality({k \in 1..Len(calls) : items[calls[k] + 1] = h}) = 1

\* main has listed a hostname that several raw names contributed
C9_Witness ==
    /\ pcMain = "done"
    /\ \E h \in repeated : Cardinality(RecordsOf(listing, h)) = 1
    /\ Len(subdomains) >= 2

\* C10: every outcome of resolveHost is a result, never a failure; all three
\* strategies were called for the host; and the result holds exactly the
\* addresses the successful strategies returned, each once.
AnswersFor(i) == {a \in settled : a[1] = i}

AddressesFor(i) ==
    UNION {Range(a[3].addresses) : a \in {b \in AnswersFor(i) : b[3].ok}}

IndexOf(item) == CHOOSE i \in 0..(N - 1) : items[i + 1] = item

C10_UnionOfSuccesses ==
    mapper = "resolveHost" =>
        \A k \in 1..Len(out) :
            LET i == IndexOf(out[k].item)
            IN /\ out[k].has = "result"
               /\ \A strategy \in Strategies :
                      Cardinality({a \in AnswersFor(i) : a[2] = strategy}) = 1
               /\ Range(out[k].result) = AddressesFor(i)
               /\ Len(out[k].result) = Cardinality(AddressesFor(i))

\* one host where every strategy failed, and one where the generic lookup
\* and the IPv4 query returned the same address and the IPv6 query failed
C10_Witness ==
    /\ mapper = "resolveHost"
    /\ \E k \in 1..Len(out) :
           /\ out[k].result = <<>>
           /\ \A a \in AnswersFor(IndexOf(out[k].item)) : ~a[3].ok
    /\ \E k \in 1..Len(out) :
           /\ out[k].result = <<V4(out[k].item)>>
           /\ {a[2] : a \in {b \in AnswersFor(IndexOf(out[k].item)) : b[3].ok}}
                  = {"lookup", "resolve4"}

\* C11: the outcome recorded for a hostname is determined by the answers to
\* that hostname's own three lookups, whatever the answers for the other
\* hostnames of the batch, the limit and the interleaving: the record (and a
\* suspended call's partial address set) is the fold of its own answers.
OwnAnswer(i, strategy) ==
    (CHOOSE a \in AnswersFor(i) : a[2] = strategy)[3]

RECURSIVE OwnIps(_, _)
OwnIps(i, pc) ==
    CASE pc = "lookup"   -> <<>>
      [] pc = "resolve4" -> afterStrategy(<<>>, OwnAnswer(i, "lookup"))
      [] pc = "resolve6" -> afterStrategy(OwnIps(i, "resolve4"), OwnAnswer(i, "resolve4"))
      [] pc = "return"   -> afterStrategy(OwnIps(i, "resolve6"), OwnAnswer(i, "resolve6"))

C11_Isolated ==
    mapper = "resolveHost" =>
        /\ \A k \in 1..Len(out) :
               out[k] = ResultRecord(out[k].item,
                                     OwnIps(IndexOf(out[k].item), "return"))
        /\ \A w \in InFlight : worker[w].ips = OwnIps(worker[w].i, worker[w].pc)
        /\ \A k \in 1..Len(listing) :
               listing[k].result = OwnIps(IndexOf(listing[k].item), "return")

\* two hosts resolved side by side: every lookup for one failed, the other
\* has both its addresses
C11_Witness ==
    /\ mapper = "resolveHost"
    /\ concurrency >= 2
    /\ \E x, y \in 1..Len(out) :
           /\ x # y
           /\ \A strategy \in Strategies :
                  ~OwnAnswer(IndexOf(out[x].item), strategy).ok
           /\ out[x].result = <<>>
           /\ out[y].result = <<V4(out[y].item), V6(out[y].item)>>

\* C12: when main has printed, the listing holds exactly the hostnames whose
\* outcome has at least one address, each with its addresses, in ascending
\* hostname order; total is the number of candidate hostnames and resolved
\* the number of hostnames listed.
Printed == pcMain = "done" /\ mapper # "none"

\* the mapper call for items[i + 1] ended with at least one address
HasAddress(i) ==
    IF mapper = "resolveHost" THEN AddressesFor(i) # {}
    ELSE \E k \in 1..Len(arrival) : arrival[k].i = i /\ arrival[k].ok

Ascending(list) ==
    \A k \in 1..(Len(list) - 1) : localeLess(list[k].item, list[k + 1].item)

C12_ListsResolvedSorted ==
    Printed =>
        /\ {listing[k].item : k \in 1..Len(listing)}
               = {items[i + 1] : i \in {j \in 0..(N - 1) : HasAddress(j)}}
        /\ Ascending(listing)
        /\ \A k \in 1..Len(listing) : Len(listing[k].result) > 0
        /\ mapper = "resolveHost" =>
               \A k \in 1..Len(listing) :
                   Range(listing[k].result) = AddressesFor(IndexOf(listing[k].item))
        /\ summary.total = N
        /\ script = "subfinder" => summary.total = Len(subdomains)
        /\ summary.resolved = Len(listing)
        /\ summary.resolved = Cardinality({j \in 0..(N - 1) : HasAddress(j)})

\* three hostnames, every lookup for the middle one failed: the other two
\* are listed, and the summary is 3 total, 2 resolved
C12_Witness ==
    /\ script = "subfinder"
    /\ Printed
    /\ subdomains = << <<"a">>, <<"a", ".", "a">>, <<"a", "a">> >>
    /\ ~HasAddress(1)
    /\ Len(listing) = 2
    /\ listing[1].item = <<"a">>
    /\ listing[2].item = <<"a", "a">>
    /\ summary.total = 3
    /\ summary.resolved = 2

\* C13: the listing, the sorted collection and the summary main prints are
\* those of the outcome records taken in input order: for the same batch and
\* the same answers they do not depend on the order in which the lookups
\* completed and the records arrived.
OutcomeOf(i) ==
    IF mapper = "resolveHost"
    THEN ResultRecord(items[i + 1], OwnIps(i, "return"))
    ELSE IF HasAddress(i)
         THEN ResultRecord(items[i + 1], CHOOSE v \in MapperValues(items[i + 1]) : TRUE)
         ELSE ErrorRecord(items[i + 1], MapperError)

InInputOrder == [k \in 1..N |-> OutcomeOf(k - 1)]

ArrivedOutOfOrder ==
    \E k, l \in 1..Len(arrival) : k < l /\ arrival[k].i > arrival[l].i

C13_OrderIndependent ==
    Printed =>
        /\ resolved = sortByItem(InInputOrder)
        /\ sortByItem(resolved) = resolved
        /\ listing = SelectSeq(sortByItem(InInputOrder), IsListed)
        /\ summary.total = N
        /\ summary.resolved = Len(SelectSeq(InInputOrder, IsListed))

\* main has printed two or more hosts whose lookups completed in another
\* order than the input order
C13_Witness ==
    /\ script = "subfinder"
    /\ Printed
    /\ ArrivedOutOfOrder
    /\ Len(listing) >= 2
    /\ listing[1].item = items[arrival[Len(arrival)].i + 1]

\* C14: a mapper call that rejects leaves one failure record for its own
\* item and no result; the worker that ran it claims the next item if one is
\* left; and main leaves that hostname out of the listing and out of the
\* resolved count while the total still counts it.
Rejected == {arrival[k].i : k \in {l \in 1..Len(arrival) : ~arrival[l].ok}}

\* the record says that the call for item failed, and holds no result
IsFailureOf(record, item) ==
    /\ record.item = item
    /\ record.has = "error"
    /\ record.error = MapperError
    /\ record.result = <<>>

C14_RecordedAsFailure ==
    /\ \A i \in Rejected :
           \A k \in 1..Len(out) :
               out[k].item = items[i + 1] => IsFailureOf(out[k], items[i + 1])
    /\ \A i \in Rejected : Cardinality(RecordsOf(out, items[i + 1])) = 1
    /\ Printed =>
           /\ \A i \in Rejected : RecordsOf(listing, items[i + 1]) = {}
           /\ summary.total = N
           /\ summary.resolved = N - Cardinality(Rejected)
                                   - Cardinality({i \in 0..(N - 1) \ Rejected : ~HasAddress(i)})

C14_WorkerGoesOn ==
    (Len(arrival') = Len(arrival) + 1 /\ ~arrival'[Len(arrival')].ok) =>
        \E w \in Workers :
            /\ worker[w].pc = "mapper"
            /\ worker[w].i = arrival'[Len(arrival')].i
            /\ Len(out') = Len(out) + 1
            /\ SubSeq(out', 1, Len(out)) = out
            /\ IsFailureOf(out'[Len(out')], worker[w].item)
            /\ IF index < N
               THEN /\ worker'[w].pc = "mapper"
                    /\ worker'[w].i = index
                    /\ worker'[w].item = items[index + 1]
                    /\ calls' = Append(calls, index)
               ELSE worker'[w].pc = "finished" /\ calls' = calls

C14_FailureIsolated == [](C14_RecordedAsFailure) /\ [][C14_WorkerGoesOn]_vars

\* the first call to settle was rejected, its worker went on, and the
\* aggregation lists some of the other hostnames
C14_Witness ==
    /\ script = "concurrencyMap"
    /\ Printed
    /\ concurrency >= 2
    /\ N > concurrency
    /\ ~arrival[1].ok
    /\ Len(listing) >= 2
    /\ summary.resolved < summary.total

\* C15: when the certificate-log query fails or its body is no list of
\* records, fetchSubdomains returns the empty list; main then starts no
\* resolution (concurrencyMap is not called, no lookup is issued, liveMap
\* stays empty) and the run reaches its end reporting zero subdomains.
QueryFailed == response.kind \in {"error", "notArray"}

NothingResolved ==
    /\ mapper = "none"
    /\ calls = <<>>
    /\ worker = <<>>
    /\ outstanding = {}
    /\ settled = {}
    /\ listing = <<>>
    /\ pending = <<>>
    /\ liveMap = <<>>

C15_AfterFailedQuery ==
    QueryFailed =>
        /\ pcMain \in {"fetching", "fetched", "done"}
        /\ subdomains = <<>>
        /\ NothingResolved
        /\ pcMain = "done" => summary.found = 0

C15_FailedQueryEndsRun ==
    /\ [](C15_AfterFailedQuery)
    /\ (QueryFailed /\ pcMain = "fetching")
           ~> (QueryFailed /\ pcMain = "done" /\ summary.found = 0)

\* subfinder.js has ended after a query that failed
C15_Witness ==
    /\ script = "subfinder"
    /\ response.kind = "error"
    /\ pcMain = "done"
    /\ summary.found = 0
    /\ NothingResolved

\* C16: the k-th record pushed carries the item of the k-th mapper call to
\* settle, as a result if that call was fulfilled and as a failure if it
\* was rejected, and every address in a result is one answered for the
\* record's own hostname, whatever the limit and the completion order.
Unsorted == pcMain \in {"resolving", "returned"}

C16_TaggedWithOwnItem ==
    /\ Unsorted =>
           /\ Len(out) = Len(arrival)
           /\ \A k \in 1..Len(out) :
                  /\ out[k].item = items[arrival[k].i + 1]
                  /\ (out[k].has = "result") = arrival[k].ok
                  /\ (out[k].has = "error") = ~arrival[k].ok
    /\ \A k \in 1..Len(out) :
           /\ out[k].item \in Range(items)
           /\ out[k].has = "result" =>
                  \A address \in Range(out[k].result) : address[2] = out[k].item
           /\ (mapper = "anyMapper" /\ out[k].has = "result") =>
                  out[k].result \in MapperValues(out[k].item)

\* several workers, records arrived in another order than the input order,
\* results and a failure among them
C16_Witness ==
    /\ Unsorted
    /\ concurrency >= 2
    /\ ArrivedOutOfOrder
    /\ Len(out) >= 3
    /\ out[1].has = "result"
    /\ arrival[1].i > 0
    /\ \E k \in 1..Len(out) : out[k].has = "error"

\* C17: while concurrencyMap is suspended the number of mapper calls in
\* flight is the smaller of the limit and the number of items without a
\* record, and no worker has stopped or waits unstarted while an item is
\* unclaimed: an item that is slow holds one worker, the others claim on.
Min(a, b) == IF a < b THEN a ELSE b

C17_WorkersKeptBusy ==
    Resolving =>
        /\ NumInFlight = Min(concurrency, N - Len(out))
        /\ Cardinality(InFlight) = Min(concurrency, N - Len(out))
        /\ Len(calls) = Min(N, concurrency + Len(out))
        /\ index < N => \A w \in Workers : worker[w].pc \in InFlightPcs
        /\ \A w \in Workers : worker[w].pc # "notStarted"

\* one call is never answered; the other worker has gone through two items
\* and holds a third
C17_Witness ==
    /\ Resolving
    /\ concurrency = 2
    /\ \E w \in Workers : worker[w].silent /\ worker[w].i = 0
    /\ Len(out) = 2
    /\ NumInFlight = 2

\* C18: the strategy calls issued and not yet settled are at most the limit
\* while a batch runs: every hostname in flight has exactly one, the one its
\* resolveHost is suspended at, issued after the earlier ones settled.
StrategiesBefore(pc) ==
    CASE pc = "lookup"   -> {}
      [] pc = "resolve4" -> {"lookup"}
      [] pc = "resolve6" -> {"lookup", "resolve4"}
      [] OTHER           -> {}

C18_OneCallPerHost ==
    Called =>
        /\ Cardinality(outstanding) <= concurrency
        /\ Cardinality(outstanding) = Cardinality(InFlight)
        /\ \A w \in InFlight :
               {c \in outstanding : c[1] = worker[w].i}
                   = {<<worker[w].i, worker[w].pc>>}
        /\ \A c \in outstanding : \E w \in InFlight : worker[w].i = c[1]
        /\ mapper = "resolveHost" =>
               \A w \in InFlight :
                   /\ worker[w].pc \in Strategies
                   /\ {a[2] : a \in AnswersFor(worker[w].i)}
                          = StrategiesBefore(worker[w].pc)

\* two hostnames in flight under the limit 2, one at its first query and
\* one at its last: two calls outstanding
C18_Witness ==
    /\ Resolving
    /\ mapper = "resolveHost"
    /\ concurrency = 2
    /\ {c[2] : c \in outstanding} = {"lookup", "resolve6"}
    /\ Cardinality(outstanding) = 2

\* C19: the cursor never decreases, the k-th mapper call to start is the one
\* for the k-th item, so the claimed indices are always the prefix
\* 0..c-1 of the input and the call for an earlier item never starts after
\* the call for a later one, whatever the order of completions.
C19_ClaimedPrefix ==
    /\ \A k \in 1..Len(calls) : calls[k] = k - 1
    /\ Called => {calls[k] : k \in 1..Len(calls)} = 0..(Min(index, N) - 1)
    /\ \A k, l \in 1..Len(calls) : calls[k] < calls[l] => k < l

C19_CursorAdvances ==
    /\ index' >= index
    /\ Len(calls') >= Len(calls)
    /\ SubSeq(calls', 1, Len(calls)) = calls

C19_ClaimedInInputOrder == [](C19_ClaimedPrefix) /\ [][C19_CursorAdvances]_vars

\* every item of a batch larger than the limit has been claimed although the
\* calls completed in another order than they started
C19_Witness ==
    /\ Resolving
    /\ concurrency >= 2
    /\ N > concurrency + 1
    /\ Len(calls) = N
    /\ ArrivedOutOfOrder
    /\ arrival[1].i = 1

\* C20: with a limit above the number of items, all N calls start when
\* concurrencyMap is called, the K - N surplus workers return at once without
\* a call, at most N calls are in flight, no call or record is for an index
\* outside 0..N-1, and concurrencyMap returns N records: none, and no call at
\* all, when N = 0.
C20_SurplusWorkersIdle ==
    (Called /\ concurrency > N) =>
        /\ Cardinality(Workers) = concurrency
        /\ Len(calls) = N
        /\ \A k \in 1..Len(calls) : calls[k] \in 0..(N - 1)
        /\ index >= concurrency
        /\ \A w \in Workers : w > N => worker[w].pc = "finished"
        /\ Cardinality({w \in Workers : worker[w].pc = "finished"}) >= concurrency - N
        /\ NumInFlight <= N
        /\ Cardinality(outstanding) <= N
        /\ Len(out) <= N
        /\ \A k \in 1..Len(out) : out[k].item \in Range(items)
        /\ Returned => Len(resolved) = N /\ index = N + concurrency
        /\ N = 0 => /\ calls = <<>>
                    /\ out = <<>>
                    /\ arrival = <<>>
                    /\ AllWorkersFinished
                    /\ Returned => resolved = <<>>

\* main, whose limit is 20, has its records for three hostnames
C20_Witness ==
    /\ script = "subfinder"
    /\ Returned
    /\ concurrency = MAX_CONCURRENT
    /\ N = 3
    /\ Len(resolved) = 3
    /\ Cardinality({w \in Workers : worker[w].pc = "finished"}) = MAX_CONCURRENT

=============================================================================
